---- MODULE Spec2Model ----
(***************************************************************************)
(* A model of the MRP engine of src/main.py: the handler run_mrp, from the *)
(* construction of the BOM graph to the table it returns or the exception  *)
(* it raises.  One run of the handler is one behaviour; the request        *)
(* payload (items, bom, mps, horizon) is chosen in Init.                   *)
(***************************************************************************)
EXTENDS Integers, Sequences, FiniteSets, TLC

\* ------------------------------------------------------------------ bounds
MaxHorizon == 2
MaxQty == 1
MaxLot == 2
MaxLead == 1
MaxBomQty == 1
MaxBom == 2

\* ------------------------------------------------------------ the payload
\* Ids of the items of the payload, in the order of data.items.
ItemIds == <<"A", "B">>
\* An id that no item of the payload carries (a BOM line may name it).
UnknownIds == {"X"}
KnownIds == {ItemIds[i] : i \in 1..Len(ItemIds)}
NodeIds == KnownIds \cup UnknownIds

\* class Item: id, lt, ss, oh, ls (name and type are informational).
Item(id) == [id : {id}, lt : 0..MaxLead, ss : 0..MaxQty, oh : 0..MaxQty, ls : 0..MaxLot]

\* An item without stock and without lead time: what it releases in a period
\* is its lot-sized demand of the period.
StocklessItem(id) == [id : {id}, lt : {0}, ss : {0}, oh : {0}, ls : 0..MaxLot]

\* An item planned lot for lot, without stock and without lead time.
PlainItem(id) == [id |-> id, lt |-> 0, ss |-> 0, oh |-> 0, ls |-> 1]

\* class BomLine: parent, child, qty.
BomLine == [parent : NodeIds, child : NodeIds, qty : 1..MaxBomQty]

\* str(t): the key of period t in the mps dictionaries.
Str(p) == CASE p = 0 -> "0" [] p = 1 -> "1" [] p = 2 -> "2" [] p = 3 -> "3"
            [] p = 4 -> "4" [] OTHER -> "n"

PeriodKeys(h) == {Str(p) : p \in 1..h}

\* class MRPInput.mps: item id -> (period key -> demand); both levels are
\* partial, and an item has a demand in one period at most.
DemandMaps(h) ==
    UNION {[K -> 1..MaxQty] : K \in {S \in SUBSET PeriodKeys(h) : Cardinality(S) <= 1}}
MpsMaps(h) == UNION {[D -> DemandMaps(h)] : D \in SUBSET KnownIds}

\* One unit of every item in period 1.
UnitMps == [id \in KnownIds |-> [k \in {Str(1)} |-> 1]]

BomLists == UNION {[1..n -> BomLine] : n \in 0..MaxBom}

\* class MRPInput, first family: any BOM over the node ids, plain items.
GraphPayloads ==
    [items : {[i \in 1..Len(ItemIds) |-> PlainItem(ItemIds[i])]},
     bom : BomLists,
     mps : {UnitMps},
     horizon : 1..MaxHorizon]

\* class MRPInput, second family: any child under a stockless parent, with or
\* without the BOM line between them, any sparse mps.
ChainPayloads ==
    UNION {[items : {<<a, b>> : a \in StocklessItem(ItemIds[1]), b \in Item(ItemIds[2])},
            bom : {<<>>} \cup {<<[parent |-> ItemIds[1], child |-> ItemIds[2], qty |-> q]>> :
                                 q \in 1..MaxBomQty},
            mps : MpsMaps(h),
            horizon : {h}] : h \in 1..MaxHorizon}

\* The state of run_mrp: the payload (data), the BOM graph (G), the order of
\* the nodes (sorted_nodes), the table (results), the row being built (row),
\* the position of the loop over sorted_nodes (idx), the period (t), the
\* control position (pc) and the outcome of the request (status).
VARIABLES data, G, sorted_nodes, results, row, idx, t, pc, status

vars == <<data, G, sorted_nodes, results, row, idx, t, pc, status>>

\* ------------------------------------------------------ the graph (networkx)
\* nx.DiGraph(): nodes in insertion order, edges (parent, child) in insertion
\* order, one qty per edge.
EmptyGraph == [nodes |-> <<>>, edges |-> <<>>, qty |-> <<>>]

SeqSet(s) == {s[i] : i \in 1..Len(s)}

AddNode(g, n) == IF n \in SeqSet(g.nodes) THEN g
                 ELSE [g EXCEPT !.nodes = Append(@, n)]

\* G.add_edge(parent, child, qty=qty): adds the missing endpoints; an edge
\* already present keeps its place and takes the new qty.
AddEdge(g, p, c, q) ==
    LET g2 == AddNode(AddNode(g, p), c)
    IN  [g2 EXCEPT !.edges = IF <<p, c>> \in SeqSet(@) THEN @ ELSE Append(@, <<p, c>>),
                   !.qty = (<<p, c>> :> q) @@ @]

RECURSIVE AddNodesFrom(_, _, _)
AddNodesFrom(g, ids, i) ==
    IF i > Len(ids) THEN g ELSE AddNodesFrom(AddNode(g, ids[i]), ids, i + 1)

RECURSIVE AddEdgesFrom(_, _, _)
AddEdgesFrom(g, bom, i) ==
    IF i > Len(bom) THEN g
    ELSE AddEdgesFrom(AddEdge(g, bom[i].parent, bom[i].child, bom[i].qty), bom, i + 1)

\* Lines 66-69.
BuildGraphOf(d) ==
    AddEdgesFrom(AddNodesFrom(EmptyGraph, [i \in 1..Len(d.items) |-> d.items[i].id], 1),
                 d.bom, 1)

\* list(G.predecessors(n)), in insertion order.
Predecessors(g, n) ==
    LET es == SelectSeq(g.edges, LAMBDA e : e[2] = n)
    IN  [i \in 1..Len(es) |-> es[i][1]]

InDegree(g, n) == Len(Predecessors(g, n))

\* The orders of the nodes in which every edge goes from an earlier node to a
\* later one.  nx.topological_sort yields one of them; which one depends on
\* the version of the library, so the model takes any.
TopologicalOrders(g) ==
    LET N == SeqSet(g.nodes)
        Pos(s, n) == CHOOSE i \in 1..Len(s) : s[i] = n
    IN  {s \in [1..Cardinality(N) -> N] :
            /\ \A i \in 1..Cardinality(N) : \A j \in 1..Cardinality(N) :
                  i # j => s[i] # s[j]
            /\ \A i \in 1..Len(g.edges) :
                  Pos(s, g.edges[i][1]) < Pos(s, g.edges[i][2])}

\* A cycle test that only looks for a node without parents.
HasSource(g) == \E n \in SeqSet(g.nodes) : InDegree(g, n) = 0

\* nx.is_directed_acyclic_graph(G): a topological order exists.
IsDirectedAcyclicGraph(g) == TopologicalOrders(g) # {}

\* Lines 83-86: list(nx.topological_sort(G)), with the fallback of the bare
\* except when the sort raises.
SortedNodes(g, d) ==
    IF TopologicalOrders(g) = {}
    THEN {[i \in 1..Len(d.items) |-> d.items[i].id]}
    ELSE TopologicalOrders(g)

\* Line 92: items_map (the last item of an id wins).
ItemsMap(d) ==
    [id \in {d.items[i].id : i \in 1..Len(d.items)} |->
        d.items[CHOOSE i \in 1..Len(d.items) :
                    /\ d.items[i].id = id
                    /\ \A j \in 1..Len(d.items) : d.items[j].id = id => j <= i]]

\* ---------------------------------------------------------- the netting pass
\* Line 114: data.mps.get(item_id, {}).get(str(t), 0).
MpsVal(d, id, p) ==
    IF id \in DOMAIN d.mps
    THEN IF Str(p) \in DOMAIN d.mps[id] THEN d.mps[id][Str(p)] ELSE 0
    ELSE 0

\* Lines 119-130: the releases of the planned parents, times the BOM qty; a
\* parent that is not in results adds nothing.
RECURSIVE DependentReq(_, _, _, _, _, _)
DependentReq(g, res, id, p, parents, i) ==
    IF i > Len(parents) THEN 0
    ELSE (IF parents[i] \in DOMAIN res
          THEN res[parents[i]][p].plannedOrderRelease * g.qty[<<parents[i], id>>]
          ELSE 0)
         + DependentReq(g, res, id, p, parents, i + 1)

GrossReq(d, g, res, id, p) ==
    MpsVal(d, id, p) + DependentReq(g, res, id, p, Predecessors(g, id), 1)

\* Line 133 with the stock on hand forgotten in period 1.
PrevProjNoStock(item, res, id, p) ==
    IF p = 1 THEN 0 ELSE res[id][p - 1].projAvail

\* Line 133: the balance before period p: the stock on hand in period 1, and
\* after it results[item_id][p-2]["projAvail"], a KeyError while results has
\* no row of the item.
PrevProjRaises(res, id, p) == p # 1 /\ id \notin DOMAIN res

PrevProj(item, res, id, p) ==
    IF p = 1 THEN item.oh ELSE res[id][p - 1].projAvail

\* Line 146 with the quotient rounded down.
NpFloor(net, ls) == net \div ls

\* np.ceil(net / ls) on a positive net and a lot size above 1.
NpCeil(net, ls) == IF net % ls = 0 THEN net \div ls ELSE net \div ls + 1

\* Lines 143-146: lot sizing.
LotSize(net, ls) == IF ls <= 1 THEN net ELSE NpCeil(net, ls) * ls

Max(a, b) == IF a >= b THEN a ELSE b

\* Lines 103-152 without line 148: the receipt never reaches the balance.
PeriodDataNoReceipt(item, p, gross, prev_proj) ==
    LET sched == 0
        projected == prev_proj + sched - gross
        short == projected < item.ss
        net == IF short THEN item.ss - projected ELSE 0
        receipt == IF short THEN LotSize(net, item.ls) ELSE 0
    IN  [period |-> p,
         grossReq |-> gross,
         schedReceipt |-> sched,
         projAvail |-> projected,
         netReq |-> Max(0, net),
         plannedOrderReceipt |-> receipt,
         plannedOrderRelease |-> 0]

\* Lines 103-152: the record of period p, from the previous balance.
PeriodData(item, p, gross, prev_proj) ==
    LET sched == 0
        projected == prev_proj + sched - gross
        short == projected < item.ss
        net == IF short THEN item.ss - projected ELSE 0
        receipt == IF short THEN LotSize(net, item.ls) ELSE 0
    IN  [period |-> p,
         grossReq |-> gross,
         schedReceipt |-> sched,
         projAvail |-> IF short THEN prev_proj + sched + receipt - gross ELSE projected,
         netReq |-> Max(0, net),
         plannedOrderReceipt |-> receipt,
         plannedOrderRelease |-> 0]

\* Lines 173-178 with the release written in the period of the receipt.
RECURSIVE OffsettingNoLead(_, _, _)
OffsettingNoLead(r, lt, i) ==
    IF i > Len(r) THEN r
    ELSE OffsettingNoLead(IF r[i].plannedOrderReceipt > 0
                          THEN [r EXCEPT ![i].plannedOrderRelease =
                                             @ + r[i].plannedOrderReceipt]
                          ELSE r,
                          lt, i + 1)

\* Lines 173-178: the offset pass over the row, from index i (1-based).
RECURSIVE Offsetting(_, _, _)
Offsetting(r, lt, i) ==
    IF i > Len(r) THEN r
    ELSE LET receipt_qty == r[i].plannedOrderReceipt
             release_period == i - lt
         IN  Offsetting(IF receipt_qty > 0 /\ release_period >= 1
                        THEN [r EXCEPT ![release_period].plannedOrderRelease =
                                           @ + receipt_qty]
                        ELSE r,
                        lt, i + 1)

\* ------------------------------------------------------------------ states
Init ==
    /\ data \in GraphPayloads \cup ChainPayloads
    /\ G = EmptyGraph
    /\ sorted_nodes = <<>>
    /\ results = <<>>
    /\ row = <<>>
    /\ idx = 0
    /\ t = 0
    /\ pc = "build"
    /\ status = "running"

item_id == sorted_nodes[idx]

\* Lines 66-69: the graph of the BOM.
BuildGraph ==
    /\ pc = "build"
    /\ G' = BuildGraphOf(data)
    /\ pc' = "check"
    /\ UNCHANGED <<data, sorted_nodes, results, row, idx, t, status>>

\* Lines 72-73: a BOM with a cycle ends the request with HTTP 400.
RaiseCycle ==
    /\ pc = "check"
    /\ ~IsDirectedAcyclicGraph(G)
    /\ pc' = "done"
    /\ status' = "HTTP400"
    /\ UNCHANGED <<data, G, sorted_nodes, results, row, idx, t>>

\* Lines 76-92: the order of the items, the empty results.
SortNodes ==
    /\ pc = "check"
    /\ IsDirectedAcyclicGraph(G)
    /\ sorted_nodes' \in SortedNodes(G, data)
    /\ results' = <<>>
    /\ idx' = 1
    /\ pc' = "item"
    /\ UNCHANGED <<data, G, row, t, status>>

\* Lines 95-97: a node that is no item of the payload is passed over.
SkipNode ==
    /\ pc = "item"
    /\ idx <= Len(sorted_nodes)
    /\ item_id \notin DOMAIN ItemsMap(data)
    /\ idx' = idx + 1
    /\ UNCHANGED <<data, G, sorted_nodes, results, row, t, pc, status>>

\* Lines 95-100: the next item starts with an empty row.
StartItem ==
    /\ pc = "item"
    /\ idx <= Len(sorted_nodes)
    /\ item_id \in DOMAIN ItemsMap(data)
    /\ row' = <<>>
    /\ t' = 1
    /\ pc' = "period"
    /\ UNCHANGED <<data, G, sorted_nodes, results, idx, status>>

\* Lines 102-170: one period of the item, appended to the row.
NetPeriod ==
    /\ pc = "period"
    /\ t <= data.horizon
    /\ ~PrevProjRaises(results, item_id, t)
    /\ LET item == ItemsMap(data)[item_id]
       IN  row' = Append(row, PeriodData(item, t, GrossReq(data, G, results, item_id, t),
                                         PrevProj(item, results, item_id, t)))
    /\ t' = t + 1
    /\ UNCHANGED <<data, G, sorted_nodes, results, idx, pc, status>>

\* Line 133: the KeyError of results[item_id] ends the request.
RaiseKeyError ==
    /\ pc = "period"
    /\ t <= data.horizon
    /\ PrevProjRaises(results, item_id, t)
    /\ pc' = "done"
    /\ status' = "KeyError"
    /\ UNCHANGED <<data, G, sorted_nodes, results, row, idx, t>>

\* Lines 173-180: the offset pass, and the row stored under the item.
OffsetPass ==
    /\ pc = "period"
    /\ t > data.horizon
    /\ results' = (item_id :> Offsetting(row, ItemsMap(data)[item_id].lt, 1)) @@ results
    /\ idx' = idx + 1
    /\ pc' = "item"
    /\ UNCHANGED <<data, G, sorted_nodes, row, t, status>>

\* Line 182: the table is returned.
Return ==
    /\ pc = "item"
    /\ idx > Len(sorted_nodes)
    /\ pc' = "done"
    /\ status' = "returned"
    /\ UNCHANGED <<data, G, sorted_nodes, results, row, idx, t>>

Next ==
    \/ BuildGraph
    \/ RaiseCycle
    \/ SortNodes
    \/ SkipNode
    \/ StartItem
    \/ NetPeriod
    \/ RaiseKeyError
    \/ OffsetPass
    \/ Return

Spec == Init /\ [][Next]_vars

\* ------------------------------------------------------ the claims' words
ItemIdSet(d) == {d.items[i].id : i \in 1..Len(d.items)}

\* The (parent, child) pairs of the BOM lines of the payload.
BomPairs(d) == {<<d.bom[i].parent, d.bom[i].child>> : i \in 1..Len(d.bom)}

\* The nodes reached from S along one to k BOM lines.
RECURSIVE Descendants(_, _, _)
Descendants(E, S, k) ==
    IF k = 0 THEN {}
    ELSE LET next == {e[2] : e \in {f \in E : f[1] \in S}}
         IN  next \cup Descendants(E, next, k - 1)

\* The BOM has a directed cycle (a self-loop is one).
HasCycle(d) ==
    \E n \in NodeIds : n \in Descendants(BomPairs(d), {n}, Cardinality(NodeIds))

\* Every BOM line names items of the payload.
AllKnown(d) == \A e \in BomPairs(d) : e[1] \in ItemIdSet(d) /\ e[2] \in ItemIdSet(d)

\* The row of an item is being built, or its building has failed.
InProgress == pc = "period" \/ (pc = "done" /\ status = "KeyError")

\* The rows there are: those of the table and the one being built.
RowsNow ==
    {<<id, results[id]>> : id \in DOMAIN results}
        \cup (IF InProgress THEN {<<item_id, row>>} ELSE {})

RECURSIVE SumReceipts(_, _)
SumReceipts(r, i) ==
    IF i > Len(r) THEN 0 ELSE r[i].plannedOrderReceipt + SumReceipts(r, i + 1)

RECURSIVE SumReleases(_, _)
SumReleases(r, i) ==
    IF i > Len(r) THEN 0 ELSE r[i].plannedOrderRelease + SumReleases(r, i + 1)

\* The demand that the planned parents of id send it in period p.
RECURSIVE ParentDemand(_, _, _)
ParentDemand(id, p, parents) ==
    IF parents = {} THEN 0
    ELSE LET q == CHOOSE x \in parents : TRUE
         IN  results[q][p].plannedOrderRelease * G.qty[<<q, id>>]
                 + ParentDemand(id, p, parents \ {q})

ParentsOf(id) == {e[1] : e \in {f \in SeqSet(G.edges) : f[2] = id}}

\* The fields of a period record.
PeriodFields == {"period", "grossReq", "schedReceipt", "projAvail", "netReq",
                 "plannedOrderReceipt", "plannedOrderRelease"}

\* The output says of period p of item id that its release is outside the
\* horizon: a field of the record beyond the seven, or a key of the table
\* that is no node of the BOM.
Flagged(id, p) ==
    \/ DOMAIN results[id][p] \ PeriodFields # {}
    \/ DOMAIN results \ SeqSet(G.nodes) # {}

\* The item has no demand of its own and no planned parent releases anything.
NoDemand(id) ==
    /\ \A p \in 1..data.horizon : MpsVal(data, id, p) = 0
    /\ \A e \in BomPairs(data) :
          (e[2] = id /\ e[1] \in DOMAIN results) =>
              \A p \in 1..Len(results[e[1]]) : results[e[1]][p].plannedOrderRelease = 0

\* ---------------------------------------------------------------- claims
\* C1 (as stated): with an acyclic BOM over known items and a horizon of 1 or
\* more, the run ends by returning a table that holds, for every item of the
\* payload, exactly horizon records of periods 1, 2, ..., horizon.
C1_Original ==
    (~HasCycle(data) /\ AllKnown(data) /\ data.horizon >= 1 /\ pc = "done") =>
        /\ status = "returned"
        /\ DOMAIN results = ItemIdSet(data)
        /\ \A id \in ItemIdSet(data) :
              /\ Len(results[id]) = data.horizon
              /\ \A p \in 1..data.horizon : results[id][p].period = p

\* C2 (as stated): when an item computes a gross requirement every parent of
\* its BOM lines has been netted and offset (a parent that is not planned makes
\* the run fail), and every gross requirement is the MPS demand plus the sum
\* over the parents of release times qty.
C2_Original ==
    /\ (pc = "period" /\ t <= data.horizon) =>
          \A e \in BomPairs(data) : e[2] = item_id => e[1] \in DOMAIN results
    /\ \A id \in DOMAIN results : \A p \in 1..Len(results[id]) :
          /\ ParentsOf(id) \subseteq DOMAIN results
          /\ results[id][p].grossReq =
                 MpsVal(data, id, p) + ParentDemand(id, p, ParentsOf(id))

\* The balance recurrence of period p of a row.
Recurrence(item, r, p) ==
    LET prior == IF p = 1 THEN item.oh ELSE r[p - 1].projAvail
        provisional == prior + r[p].schedReceipt - r[p].grossReq
    IN  /\ r[p].projAvail = provisional + r[p].plannedOrderReceipt
        /\ provisional >= item.ss =>
              r[p].netReq = 0 /\ r[p].plannedOrderReceipt = 0
        /\ provisional < item.ss => r[p].netReq = item.ss - provisional

\* C3 (as stated): every period of 1..horizon that the netting of an item
\* enters gets a record, whose balance follows the recurrence from the stock on
\* hand (period 1) or from the balance of the period before (later periods).
C3_Original ==
    /\ InProgress =>
          \A p \in 1..data.horizon :
              (p < t \/ (p = t /\ pc = "done")) => p <= Len(row)
    /\ \A id \in DOMAIN results : Len(results[id]) = data.horizon
    /\ \A x \in RowsNow : \A p \in 1..Len(x[2]) :
          Recurrence(ItemsMap(data)[x[1]], x[2], p)

\* C4: in every record, a lot size of 0 or 1 makes the planned receipt the net
\* requirement; a lot size L above 1 makes it the smallest multiple of L that
\* covers the net requirement (0 for a net requirement of 0).
C4_LotSizing ==
    \A x \in RowsNow : \A p \in 1..Len(x[2]) :
        LET L == ItemsMap(data)[x[1]].ls
            net == x[2][p].netReq
            receipt == x[2][p].plannedOrderReceipt
        IN  IF L <= 1 THEN receipt = net
            ELSE /\ receipt >= 0
                 /\ receipt % L = 0
                 /\ receipt >= net
                 /\ receipt < net + L
                 /\ net = 0 => receipt = 0

\* A returned table with a lot-for-lot receipt under lot size 0 and a receipt
\* rounded up to a lot above the net requirement.
C4_Witness ==
    /\ status = "returned"
    /\ \E id \in DOMAIN results : \E p \in 1..Len(results[id]) :
          /\ ItemsMap(data)[id].ls = 0
          /\ results[id][p].plannedOrderReceipt > 0
    /\ \E id \in DOMAIN results : \E p \in 1..Len(results[id]) :
          /\ ItemsMap(data)[id].ls > 1
          /\ results[id][p].netReq > 0
          /\ results[id][p].plannedOrderReceipt > results[id][p].netReq

\* C5: the offset pass of an item leaves in period s the receipt of period
\* s + lead time, 0 when that period is beyond the horizon; it changes no
\* other field, so the releases sum to the receipts of the periods after the
\* lead time.
C5_Offset ==
    [][OffsetPass =>
          LET lt == ItemsMap(data)[item_id].lt
              new == results'[item_id]
          IN  /\ Len(new) = Len(row)
              /\ Len(row) = data.horizon
              /\ \A s \in 1..data.horizon :
                    /\ new[s].plannedOrderRelease =
                           (IF s + lt <= data.horizon
                            THEN row[s + lt].plannedOrderReceipt ELSE 0)
                    /\ \A f \in PeriodFields \ {"plannedOrderRelease"} :
                           new[s][f] = row[s][f]
                    /\ DOMAIN new[s] = PeriodFields
              /\ SumReleases(new, 1) = SumReceipts(row, lt + 1)
              /\ \A id \in DOMAIN results : results'[id] = results[id]]_vars

\* The table holds a release that the offset pass wrote, and a receipt whose
\* release fell before period 1.
C5_Witness ==
    /\ \E id \in DOMAIN results : \E p \in 1..Len(results[id]) :
          /\ results[id][p].plannedOrderRelease > 0
          /\ results[id][p].plannedOrderRelease = results[id][p].plannedOrderReceipt
    /\ \E id \in DOMAIN results : \E p \in 1..Len(results[id]) :
          /\ ItemsMap(data)[id].lt >= p
          /\ results[id][p].plannedOrderReceipt > 0
          /\ results[id][p].plannedOrderRelease = 0

\* C6 (as stated): a receipt of a period t with t - lead time < 1 is added to
\* no release, the run succeeds, and the output flags the item and period.
C6_Original ==
    status = "returned" =>
        \A id \in DOMAIN results : \A p \in 1..Len(results[id]) :
            (results[id][p].plannedOrderReceipt > 0 /\ p - ItemsMap(data)[id].lt < 1) =>
                /\ SumReleases(results[id], 1) =
                       SumReceipts(results[id], ItemsMap(data)[id].lt + 1)
                /\ Flagged(id, p)

\* C7: a BOM with a directed cycle is refused: the run goes from the cycle
\* test to the error of HTTP 400 and to nothing else, no item is ordered or
\* netted, and no table is built.
C7_CycleFails ==
    HasCycle(data) =>
        /\ pc \in {"build", "check", "done"}
        /\ pc = "check" => (ENABLED RaiseCycle /\ ~ENABLED SortNodes)
        /\ pc = "done" => status = "HTTP400"
        /\ pc # "done" => status = "running"
        /\ sorted_nodes = <<>> /\ results = <<>> /\ row = <<>> /\ idx = 0 /\ t = 0

\* The two-line cycle X -> Y, Y -> X has been refused.
C7_Witness ==
    /\ pc = "done"
    /\ status = "HTTP400"
    /\ \E x \in NodeIds : \E y \in NodeIds \ {x} :
          <<x, y>> \in BomPairs(data) /\ <<y, x>> \in BomPairs(data)

\* C8 (as stated): a BOM line that names an id outside the items makes the run
\* fail before any netting; no period is netted and no table is returned.
C8_Original ==
    ~AllKnown(data) =>
        /\ row = <<>>
        /\ results = <<>>
        /\ status # "returned"

\* C9 (as stated): an item without demand of its own and without dependent
\* demand has a planned receipt of 0 and a balance equal to the stock on hand
\* in every period, whatever the stock on hand and the safety stock.
C9_Original ==
    \A x \in RowsNow :
        NoDemand(x[1]) =>
            \A p \in 1..Len(x[2]) :
                /\ x[2][p].plannedOrderReceipt = 0
                /\ x[2][p].projAvail = ItemsMap(data)[x[1]].oh

\* C9 (amended): the same, for the items whose stock on hand is at least
\* their safety stock.
C9_Amended ==
    \A x \in RowsNow :
        (NoDemand(x[1]) /\ ItemsMap(data)[x[1]].oh >= ItemsMap(data)[x[1]].ss) =>
            \A p \in 1..Len(x[2]) :
                /\ x[2][p].plannedOrderReceipt = 0
                /\ x[2][p].projAvail = ItemsMap(data)[x[1]].oh

\* A returned table with an item without demand under a parent that releases
\* nothing, its stock on hand covering a positive safety stock.
C9_Witness ==
    /\ status = "returned"
    /\ \E id \in DOMAIN results :
          /\ NoDemand(id)
          /\ \E e \in BomPairs(data) : e[2] = id /\ e[1] \in DOMAIN results
          /\ ItemsMap(data)[id].ss > 0
          /\ ItemsMap(data)[id].oh >= ItemsMap(data)[id].ss
          /\ Len(results[id]) >= 1

\* C10: in every record the balance is at least the safety stock of the item,
\* the net requirement is at least 0 and the planned receipt is at least the
\* net requirement.
C10_Covered ==
    \A x \in RowsNow : \A p \in 1..Len(x[2]) :
        /\ x[2][p].projAvail >= ItemsMap(data)[x[1]].ss
        /\ x[2][p].netReq >= 0
        /\ x[2][p].plannedOrderReceipt >= x[2][p].netReq

\* A returned table with a shortage under a positive safety stock, covered by
\* a lot that lifts the balance above the safety stock.
C10_Witness ==
    /\ status = "returned"
    /\ \E id \in DOMAIN results : \E p \in 1..Len(results[id]) :
          /\ ItemsMap(data)[id].ss > 0
          /\ results[id][p].grossReq > 0
          /\ results[id][p].netReq > 0
          /\ results[id][p].projAvail > ItemsMap(data)[id].ss

====
